---- MODULE Spec2Model ----
(***************************************************************************)
(* Model of ibei: the Bose-Einstein integral evaluator BEI                 *)
(* (src/src/ibei/models.py).                                               *)
(*                                                                         *)
(* Numbers are exact.  A temperature is a whole number of kelvin and an    *)
(* energy a whole multiple of k_B * 1 K (or +inf), so that the reduced     *)
(* quantities energy/kT are rationals.  A flux is a linear combination,    *)
(* with rational coefficients, of the symbols                              *)
(*     pi^a * k_B^b * (h^3 c^2)^(-c) * f                                   *)
(* where f is 1, zeta(k) or the polylogarithm Li_k(exp(q)), q < 0.         *)
(* Floating point is modelled where the code branches on it: exp of a      *)
(* very negative exponent is exactly 0, and an energy bound may be +inf.   *)
(* A call either returns a quantity (a value and a unit) or raises.        *)
(***************************************************************************)
EXTENDS Integers, Sequences, FiniteSets, TLC

(***************************************************************************)
(* Bounds of the model.                                                    *)
(***************************************************************************)
MaxOrder == 3
MaxEnergy == 2
MaxTemp == 2
\* An energy bound beyond the underflow of exp at every temperature.
BigEnergy == 800 * MaxTemp

(***************************************************************************)
(* Rationals <<n, d>> in lowest terms, d > 0.                              *)
(***************************************************************************)
Abs(n) == IF n < 0 THEN -n ELSE n

RECURSIVE Gcd(_, _)
Gcd(a, b) == IF b = 0 THEN a ELSE Gcd(b, a % b)

Rat(n, d) ==
    LET s == IF d < 0 THEN -1 ELSE 1
        g == Gcd(Abs(n), Abs(d))
    IN  <<(s * n) \div g, (s * d) \div g>>

RInt(n) == <<n, 1>>
RZero == <<0, 1>>
ROne == <<1, 1>>
RAdd(p, q) == Rat(p[1] * q[2] + q[1] * p[2], p[2] * q[2])
RNeg(p) == <<-p[1], p[2]>>
RSub(p, q) == RAdd(p, RNeg(q))
RMul(p, q) == Rat(p[1] * q[1], p[2] * q[2])
RDiv(p, q) == Rat(p[1] * q[2], p[2] * q[1])
RLt(p, q) == p[1] * q[2] < q[1] * p[2]
RLe(p, q) == p[1] * q[2] <= q[1] * p[2]

RECURSIVE RPow(_, _)
RPow(p, n) == IF n = 0 THEN ROne ELSE RMul(p, RPow(p, n - 1))

RECURSIVE IPow(_, _)
IPow(b, n) == IF n = 0 THEN 1 ELSE b * IPow(b, n - 1)

(***************************************************************************)
(* Floats as the code uses them: a finite rational, +inf, -inf or nan.     *)
(* Comparisons with nan are false, as in IEEE 754.                         *)
(***************************************************************************)
Fin(q) == [k |-> "fin", q |-> q]
PInf == [k |-> "inf", q |-> RZero]
NInf == [k |-> "ninf", q |-> RZero]
NaN == [k |-> "nan", q |-> RZero]

FEq(a, b) ==
    /\ a.k # "nan"
    /\ b.k # "nan"
    /\ a = b

FLt(a, b) ==
    CASE a.k = "nan" \/ b.k = "nan" -> FALSE
      [] a.k = "fin" /\ b.k = "fin" -> RLt(a.q, b.q)
      [] a.k = "ninf" -> b.k # "ninf"
      [] a.k = "inf" -> FALSE
      [] OTHER -> b.k = "inf"

FGe(a, b) == FEq(a, b) \/ FLt(b, a)
FGt(a, b) == FLt(b, a)

\* a - b
FSub(a, b) ==
    CASE a.k = "nan" \/ b.k = "nan" -> NaN
      [] a.k = "fin" /\ b.k = "fin" -> Fin(RSub(a.q, b.q))
      [] a.k = "fin" -> IF b.k = "inf" THEN NInf ELSE PInf
      [] b.k = "fin" -> a
      [] a.k = b.k -> NaN
      [] OTHER -> a

\* a / t for a finite t > 0
FDivPos(a, t) == IF a.k = "fin" THEN Fin(RDiv(a.q, t)) ELSE a

(***************************************************************************)
(* Symbolic reals.  A monomial is c * pi^pi * k_B^kB * (h^3 c^2)^(-hc) * f *)
(* with c a rational; f is 1 (t = "one"), zeta(k) (t = "zeta") or          *)
(* Li_k(exp(n/d)) with n/d < 0 (t = "Li").  A value is a set of monomials  *)
(* with distinct symbols and non-zero coefficients; {} is zero.            *)
(***************************************************************************)
FOne == [t |-> "one", k |-> 0, n |-> 0, d |-> 1]
FZeta(k) == [t |-> "zeta", k |-> k, n |-> 0, d |-> 1]
FLi(k, q) == [t |-> "Li", k |-> k, n |-> q[1], d |-> q[2]]

Mono(c, pi, kB, hc, f) == [c |-> c, pi |-> pi, kB |-> kB, hc |-> hc, f |-> f]
Key(t) == [pi |-> t.pi, kB |-> t.kB, hc |-> t.hc, f |-> t.f]

VZero == {}
VMono(c, pi, kB, hc, f) == IF c = RZero THEN {} ELSE {Mono(c, pi, kB, hc, f)}
VRat(c) == VMono(c, 0, 0, 0, FOne)

Coef(v, key) ==
    IF \E t \in v : Key(t) = key
    THEN (CHOOSE t \in v : Key(t) = key).c
    ELSE RZero

VAdd(v, w) ==
    LET keys == {Key(t) : t \in v \cup w}
        sum(key) == RAdd(Coef(v, key), Coef(w, key))
    IN  {Mono(sum(key), key.pi, key.kB, key.hc, key.f) :
            key \in {x \in keys : sum(x) # RZero}}

VNeg(v) == {Mono(RNeg(t.c), t.pi, t.kB, t.hc, t.f) : t \in v}
VSub(v, w) == VAdd(v, VNeg(w))

\* The product of a value and a monomial; one of the two carries f = 1.
MulMono(v, m) ==
    {Mono(RMul(t.c, m.c), t.pi + m.pi, t.kB + m.kB, t.hc + m.hc,
          IF t.f = FOne THEN m.f ELSE t.f) : t \in {x \in v : m.c # RZero}}

VScale(v, c) == MulMono(v, Mono(c, 0, 0, 0, FOne))

\* Every symbol is positive, so a value whose coefficients are all
\* positive is positive.
VPositive(v) == v # {} /\ \A t \in v : RLt(RZero, t.c)

(***************************************************************************)
(* Units up to equivalence: exponents of energy, metre, second, kelvin.    *)
(***************************************************************************)
Unit(E, m, s, K) == [E |-> E, m |-> m, s |-> s, K |-> K]
Dimensionless == Unit(0, 0, 0, 0)
UnitEnergy == Unit(1, 0, 0, 0)
UnitKelvin == Unit(0, 0, 0, 1)
UMul(u, w) == Unit(u.E + w.E, u.m + w.m, u.s + w.s, u.K + w.K)
UDiv(u, w) == Unit(u.E - w.E, u.m - w.m, u.s - w.s, u.K - w.K)
UPow(u, n) == Unit(u.E * n, u.m * n, u.s * n, u.K * n)

(***************************************************************************)
(* The outcome of a call: a quantity returned, or an exception raised.     *)
(***************************************************************************)
Qty(u, v) == [ok |-> TRUE, unit |-> u, val |-> v, err |-> "none"]
Raised(e) == [ok |-> FALSE, unit |-> Dimensionless, val |-> {}, err |-> e]

\* a * b: the first operand is evaluated first, so its exception wins.
QMul(a, m, u) ==
    IF ~a.ok THEN a ELSE Qty(UMul(a.unit, u), MulMono(a.val, m))

\* a - b of two quantities: units must be equivalent.
QSub(a, b) ==
    IF ~a.ok THEN a
    ELSE IF ~b.ok THEN b
    ELSE IF a.unit # b.unit THEN Raised("UnitConversionError")
    ELSE Qty(a.unit, VSub(a.val, b.val))

QAdd(a, b) ==
    IF ~a.ok THEN a
    ELSE IF ~b.ok THEN b
    ELSE IF a.unit # b.unit THEN Raised("UnitConversionError")
    ELSE Qty(a.unit, VAdd(a.val, b.val))

\* q.to(u)
QTo(a, u) ==
    IF ~a.ok THEN a
    ELSE IF a.unit # u THEN Raised("UnitConversionError")
    ELSE a

(***************************************************************************)
(* Library functions the evaluator calls.                                  *)
(***************************************************************************)
\* FExp without the limit exp(-inf) = 0.
FExp_noinf(e) ==
    CASE e.k \in {"nan", "ninf"} -> [k |-> "nan", q |-> RZero]
      [] e.k = "inf" -> [k |-> "inf", q |-> RZero]
      [] e.q = RZero -> [k |-> "one", q |-> RZero]
      [] OTHER -> [k |-> "exp", q |-> e.q]

\* np.exp of a float: exactly 0.0 below ln(2^-1075), exactly 1.0 at 0.
ExpUnderflow == <<-745133, 1000>>

FExp(e) ==
    CASE e.k = "nan" -> [k |-> "nan", q |-> RZero]
      [] e.k = "ninf" -> [k |-> "zero", q |-> RZero]
      [] e.k = "inf" -> [k |-> "inf", q |-> RZero]
      [] e.q = RZero -> [k |-> "one", q |-> RZero]
      [] RLt(e.q, ExpUnderflow) -> [k |-> "zero", q |-> RZero]
      [] OTHER -> [k |-> "exp", q |-> e.q]

\* mpmath.zeta(k) for an integer k # 1, in closed form where one exists.
Zeta(k) ==
    CASE k = 0 -> VRat(<<-1, 2>>)
      [] k = 2 -> VMono(<<1, 6>>, 2, 0, 0, FOne)
      [] k = 4 -> VMono(<<1, 90>>, 4, 0, 0, FOne)
      [] k = 6 -> VMono(<<1, 945>>, 6, 0, 0, FOne)
      [] OTHER -> VMono(ROne, 0, 0, 0, FZeta(k))

\* float(mpmath.polylog(k, x)).  polylog(k, 1) is zeta(k), and zeta has its
\* pole at k = 1: the call raises (the failure test_issue_4 of
\* test/test_uiebi.py records for the series at x = 1).  For x > 1 the
\* polylogarithm is complex and float() raises TypeError (test_issue_2).
Polylog(k, x) ==
    CASE x.k = "one" -> IF k = 1 THEN Raised("ValueError")
                        ELSE Qty(Dimensionless, Zeta(k))
      [] x.k = "zero" -> Qty(Dimensionless, VZero)
      [] x.k = "exp" /\ RLt(x.q, RZero) ->
            Qty(Dimensionless, VMono(ROne, 0, 0, 0, FLi(k, x.q)))
      [] OTHER -> Raised("TypeError")

\* np.math.factorial(n)
RECURSIVE FactNat(_)
FactNat(n) == IF n <= 0 THEN 1 ELSE n * FactNat(n - 1)

Factorial(n) ==
    IF n < 0 THEN Raised("ValueError")
    ELSE Qty(Dimensionless, VRat(RInt(FactNat(n))))

\* float(mpmath.gamma(n)) for an integer n: (n-1)!, with poles at n <= 0.
Gamma(n) ==
    IF n <= 0 THEN Raised("ValueError")
    ELSE Qty(Dimensionless, VRat(RInt(FactNat(n - 1))))

\* The rational a dimensionless outcome holds (one of the two above).
RatOf(a) == Coef(a.val, Key(Mono(ROne, 0, 0, 0, FOne)))

(***************************************************************************)
(* BEI: a record [order, energy_bound, temperature, chemical_potential];   *)
(* energy_bound and chemical_potential in eV, temperature in K, as floats. *)
(***************************************************************************)
FZeroF == Fin(RZero)

\* BEI.kT, as a number and as a quantity
kTNum(b) == b.temperature.q
kT(b) == Qty(UnitEnergy, VMono(kTNum(b), 0, 1, 0, FOne))

\* BEI.reduced_energy_bound, BEI.reduced_chemical_potential
reduced_energy_bound(b) == FDivPos(b.energy_bound, kTNum(b))
reduced_chemical_potential(b) == FDivPos(b.chemical_potential, kTNum(b))

RPowZ(p, n) == IF n >= 0 THEN RPow(p, n) ELSE RDiv(ROne, RPow(p, -n))

\* prefactor with kT^order in place of kT^(order+1)
PrefactorMono_order(b) ==
    Mono(RMul(RInt(2), RPowZ(b.temperature.q, b.order)), 1, b.order + 1, 1, FOne)

\* BEI.prefactor = 2 pi kT^(order+1) / (h^3 c^2)
UnitH3C2 == UMul(UPow(Unit(1, 0, 1, 0), 3), UPow(Unit(0, 1, -1, 0), 2))
PrefactorUnit(order) == UDiv(UPow(UnitEnergy, order + 1), UnitH3C2)
PrefactorMono(b) ==
    Mono(RMul(RInt(2), RPowZ(kTNum(b), b.order + 1)), 1, b.order + 1, 1, FOne)
prefactor(b) == Qty(PrefactorUnit(b.order), {PrefactorMono(b)})


\* The exponential argument of upper(): exp(reduced mu - reduced E).
UpperRealArg(b) ==
    FExp(FSub(reduced_chemical_potential(b), reduced_energy_bound(b)))

\* The chain with > in place of >= (the legacy uibei of src/ibei/main.py).
UpperBranch_gt(b) ==
    CASE FEq(reduced_chemical_potential(b), FZeroF)
            /\ FEq(reduced_energy_bound(b), FZeroF) -> "singular"
      [] FGt(reduced_chemical_potential(b), reduced_energy_bound(b)) -> "mu_ge_E"
      [] UpperRealArg(b).k = "zero" -> "underflow"
      [] OTHER -> "series"

\* The branch of the if / elif chain that upper() takes.
UpperBranch(b) ==
    CASE FEq(reduced_chemical_potential(b), FZeroF)
            /\ FEq(reduced_energy_bound(b), FZeroF) -> "singular"
      [] FGe(reduced_chemical_potential(b), reduced_energy_bound(b)) -> "mu_ge_E"
      [] UpperRealArg(b).k = "zero" -> "underflow"
      [] OTHER -> "series"

\* One term of the loop: reduced_energy_bound^index * Li_indx(x) / index!
SeriesTerm(b, indx) ==
    LET index == b.order - indx + 1
        li == Polylog(indx, UpperRealArg(b))
        c == RDiv(RPow(reduced_energy_bound(b).q, index), RInt(FactNat(index)))
    IN  IF ~li.ok THEN li ELSE Qty(Dimensionless, VScale(li.val, c))

\* The loop over range(1, order + 1): one iteration short.
RECURSIVE SeriesRun_short(_, _, _, _)
SeriesRun_short(b, indx, acc, n) ==
    IF indx > b.order \/ ~acc.ok THEN [summand |-> acc, iterations |-> n]
    ELSE SeriesRun_short(b, indx + 1, QAdd(acc, SeriesTerm(b, indx)), n + 1)

\* The loop from indx on: summand, and the number of iterations entered
\* (each evaluates one polylogarithm); an exception ends the loop.
RECURSIVE SeriesRun(_, _, _, _)
SeriesRun(b, indx, acc, n) ==
    IF indx > b.order + 1 \/ ~acc.ok THEN [summand |-> acc, iterations |-> n]
    ELSE SeriesRun(b, indx + 1, QAdd(acc, SeriesTerm(b, indx)), n + 1)

\* summand after the iterations indx = from .. order + 1, starting at acc
SeriesLoop(b, indx, acc) == SeriesRun(b, indx, acc, 0).summand

\* A zero returned as the bare number 0.
TimesPrefactorFactorial_bareZero(x, b) ==
    IF ~x.ok THEN x
    ELSE IF b.order < 0 THEN Raised("ValueError")
    ELSE IF x.val = VZero THEN Qty(Dimensionless, VZero)
    ELSE Qty(UDiv(UPow(UnitEnergy, b.order + 1), UnitH3C2),
             VScale(MulMono(x.val, PrefactorMono(b)), RInt(FactNat(b.order))))

\* x * self.prefactor * np.math.factorial(self.order)
TimesPrefactorFactorial(x, b) ==
    LET fact == Factorial(b.order)
    IN  IF ~x.ok THEN x
        ELSE IF ~fact.ok THEN fact
        ELSE Qty(PrefactorUnit(b.order),
                 VScale(MulMono(x.val, PrefactorMono(b)), RatOf(fact)))

\* upper() without the singular case (the legacy uibei of
\* src/ibei/uibei.py, issue 31).
upper_nosingular(b) ==
    IF UpperBranch(b) \in {"singular", "mu_ge_E", "underflow"}
    THEN TimesPrefactorFactorial(Qty(Dimensionless, VZero), b)
    ELSE TimesPrefactorFactorial(
             SeriesLoop(b, 1, Qty(Dimensionless, VZero)), b)

\* BEI.upper
upper(b) ==
    CASE UpperBranch(b) = "singular" ->
            TimesPrefactorFactorial(Polylog(b.order + 1, UpperRealArg(b)), b)
      [] UpperBranch(b) = "mu_ge_E" ->
            TimesPrefactorFactorial(Qty(Dimensionless, VZero), b)
      [] UpperBranch(b) = "underflow" ->
            TimesPrefactorFactorial(Qty(Dimensionless, VZero), b)
      [] OTHER ->
            TimesPrefactorFactorial(
                SeriesLoop(b, 1, Qty(Dimensionless, VZero)), b)

\* What one call of upper() costs: loop iterations entered, and
\* evaluations of mpmath.polylog.
UpperEvaluations(b) ==
    CASE UpperBranch(b) = "singular" -> [iterations |-> 0, polylogs |-> 1]
      [] UpperBranch(b) = "series" ->
            LET run == SeriesRun(b, 1, Qty(Dimensionless, VZero), 0)
            IN  [iterations |-> run.iterations, polylogs |-> run.iterations]
      [] OTHER -> [iterations |-> 0, polylogs |-> 0]

\* full() that is zero for chemical_potential >= 0.
full_ge(b) ==
    IF FGe(reduced_chemical_potential(b), FZeroF)
    THEN Qty(PrefactorUnit(b.order), VZero)
    ELSE Raised("ValueError")

\* full() without the zero for a positive chemical potential.
full_noZeroBranch(b) ==
    LET g == Gamma(b.order + 1)
        li == Polylog(b.order + 1, FExp(reduced_chemical_potential(b)))
    IN  IF ~g.ok THEN g
        ELSE IF ~li.ok THEN li
        ELSE Qty(PrefactorUnit(b.order),
                 VScale(MulMono(li.val, PrefactorMono(b)), RatOf(g)))

\* BEI.full
full(b) ==
    IF FGt(reduced_chemical_potential(b), FZeroF)
    THEN Qty(PrefactorUnit(b.order), VZero)
    ELSE LET g == Gamma(b.order + 1)
             li == Polylog(b.order + 1, FExp(reduced_chemical_potential(b)))
         IN  IF ~g.ok THEN g
             ELSE IF ~li.ok THEN li
             ELSE Qty(PrefactorUnit(b.order),
                      VScale(MulMono(li.val, PrefactorMono(b)), RatOf(g)))

\* lower() with the operands exchanged.
lower_swapped(b) == QSub(upper(b), full(b))

\* BEI.lower = full() - upper()
lower(b) == QSub(full(b), upper(b))

\* photon_flux computed as full() is, from the instance's own order.
photon_flux_ofOrder(b) ==
    QTo(Qty(UDiv(UPow(UnitEnergy, b.order + 1), UnitH3C2),
            VMono(RMul(RInt(4), RPow(kTNum(b), b.order + 1)),
                  1, b.order + 1, 1, FZeta(b.order + 1))),
        Unit(0, -2, -1, 0))

\* BEI.photon_flux = 4 pi zeta(3) kT^3 / (h^3 c^2), in 1/(m2 s)
photon_flux(b) ==
    QTo(Qty(UDiv(UPow(UnitEnergy, 3), UnitH3C2),
            VMono(RMul(RInt(4), RPow(kTNum(b), 3)), 1, 3, 1, FZeta(3))),
        Unit(0, -2, -1, 0))

\* BEI.radiant_power_flux = sigma_sb * temperature^4, in J/(m2 s), with
\* sigma_sb = 2 pi^5 k_B^4 / (15 h^3 c^2)
UnitSigmaSB == Unit(1, -2, -1, -4)
radiant_power_flux(b) ==
    QTo(Qty(UMul(UnitSigmaSB, UPow(UnitKelvin, 4)),
            VMono(RMul(<<2, 15>>, RPow(b.temperature.q, 4)), 5, 4, 1, FOne)),
        Unit(1, -2, -1, 0))

(***************************************************************************)
(* Construction: attrs runs the converters in field order as it assigns    *)
(* the fields, then the validators in field order.  The first exception    *)
(* ends the construction and no instance exists.                           *)
(***************************************************************************)
Digits == <<"0", "1", "2", "3", "4", "5", "6", "7", "8", "9">>
IsDigit(c) == \E i \in 1..Len(Digits) : Digits[i] = c
DigitVal(c) == (CHOOSE i \in 1..Len(Digits) : Digits[i] = c) - 1

\* int(s) of a string: an optional sign, then one or more digits.
StrBody(s) == IF Len(s) > 0 /\ s[1] \in {"-", "+"} THEN Tail(s) ELSE s
StrParsesAsInt(s) ==
    /\ Len(StrBody(s)) > 0
    /\ \A i \in 1..Len(StrBody(s)) : IsDigit(StrBody(s)[i])

RECURSIVE DigitsValue(_, _)
DigitsValue(ds, acc) ==
    IF ds = <<>> THEN acc
    ELSE DigitsValue(Tail(ds), 10 * acc + DigitVal(Head(ds)))

StrToInt(s) ==
    IF Len(s) > 0 /\ s[1] = "-" THEN -DigitsValue(StrBody(s), 0)
    ELSE DigitsValue(StrBody(s), 0)

\* int(x) of a number: truncation toward zero.
TruncToInt(q) ==
    IF q[1] >= 0 THEN q[1] \div q[2] ELSE -((-q[1]) \div q[2])

Converted(v) == [ok |-> TRUE, v |-> v, err |-> "none"]
ConvFailed(e) == [ok |-> FALSE, v |-> 0, err |-> e]

\* A Quantity that is not a scalar (an array of n >= 1 elements equal to q).
ArrayOf(n, q) == [k |-> "array", q |-> q, n |-> n]
IsArray(v) == v.k = "array"

\* The number of kelvin in 0 degC.
CelsiusOffset == <<27315, 100>>

\* A converter that returns int(value) without the truncation check.
IntConverter_trunc(a) ==
    IF a.kind = "str"
    THEN IF StrParsesAsInt(a.s) THEN Converted(StrToInt(a.s))
         ELSE ConvFailed("TypeError")
    ELSE Converted(TruncToInt(a.q))

\* _int_converter.  An order argument is a string [kind |-> "str", s], a
\* number [kind |-> "int" / "float", q], a list (int() of a list raises
\* TypeError) or a numpy array of n elements equal to q (int() of an array
\* raises TypeError unless it has exactly one element, and the truth value
\* of the one-element comparison is that of its element).
IntConverter(a) ==
    IF a.kind = "str"
    THEN IF StrParsesAsInt(a.s) THEN Converted(StrToInt(a.s))
         ELSE ConvFailed("TypeError")
    ELSE IF a.kind = "list" THEN ConvFailed("TypeError")
    ELSE IF a.kind = "array" /\ a.n # 1 THEN ConvFailed("TypeError")
    ELSE IF RInt(TruncToInt(a.q)) # a.q THEN ConvFailed("TypeError")
    ELSE Converted(TruncToInt(a.q))

\* astropy.units.Quantity(value, unit): value is a bare number, a Quantity,
\* a list of n bare numbers or of n Quantities, or an array (bare or a
\* Quantity), all elements v in unit a.unit ("none" for bare numbers).
\* Only a value already in the unit, or bare, converts; any other unit
\* raises UnitConversionError.
ToQuantity(a, unit) ==
    IF a.unit \notin {"none", unit} THEN ConvFailed("UnitConversionError")
    ELSE IF a.kind \in {"list", "array"} THEN Converted(ArrayOf(a.n, a.v.q))
    ELSE Converted(a.v)

\* energy_bound / chemical_potential converter: Quantity(value, unit=eV)
EnergyConverter(a) == ToQuantity(a, "eV")

\* A retry that takes the number of any scalar quantity as kelvin.
ToKelvin_anyUnit(a) ==
    IF a.kind = "list" THEN ConvFailed("AttributeError")
    ELSE IF a.kind = "array" THEN Converted(ArrayOf(a.n, a.v.q))
    ELSE Converted(a.v)

\* value.to(K, equivalencies=temperature()): a list has no method to();
\* degC is shifted by 273.15.
ToKelvin(a) ==
    IF a.kind = "list" THEN ConvFailed("AttributeError")
    ELSE IF a.unit = "K" THEN ToQuantity(a, "K")
    ELSE IF a.unit = "deg_C"
    THEN LET k == IF a.v.k = "fin" THEN Fin(RAdd(a.v.q, CelsiusOffset))
                  ELSE a.v
         IN  IF a.kind = "array" THEN Converted(ArrayOf(a.n, k.q))
             ELSE Converted(k)
    ELSE ConvFailed("UnitConversionError")

\* A converter that takes the number of a Celsius quantity as kelvin.
TemperatureConverter_noOffset(a) ==
    IF a.kind # "list" /\ a.unit = "deg_C"
    THEN IF a.kind = "array" THEN Converted(ArrayOf(a.n, a.v.q))
         ELSE Converted(a.v)
    ELSE IF ToQuantity(a, "K").err = "UnitConversionError" THEN ToKelvin(a)
    ELSE ToQuantity(a, "K")

\* _temperature_converter
TemperatureConverter(a) ==
    IF ToQuantity(a, "K").err = "UnitConversionError" THEN ToKelvin(a)
    ELSE ToQuantity(a, "K")

\* _validate_is_scalar
ValidateIsScalar(v) == ~IsArray(v)

\* gt(0) weakened to ge(0)
ValidateGt0_ge(v) == FGe(v, Fin(RZero))

\* attrs.validators.ge(0), attrs.validators.gt(0)
ValidateGe0(v) == FGe(v, FZeroF)
ValidateGt0(v) == FGt(v, FZeroF)

NoBEI == [order |-> 0, energy_bound |-> NaN, temperature |-> NaN,
          chemical_potential |-> NaN]

\* A constructor that validates each field right after converting it.
BEIInit_validateEachField(a) ==
    LET o == IntConverter(a.order)
        e == EnergyConverter(a.energy_bound)
        t == TemperatureConverter(a.temperature)
        m == EnergyConverter(a.chemical_potential)
        inst == [order |-> o.v, energy_bound |-> e.v, temperature |-> t.v,
                 chemical_potential |-> m.v]
        built(x) == [ok |-> TRUE, bei |-> x, err |-> "none"]
        failed(x) == [ok |-> FALSE, bei |-> NoBEI, err |-> x]
    IN  CASE ~o.ok -> failed(o.err)
          [] ~e.ok -> failed(e.err)
          [] ~ValidateIsScalar(e.v) -> failed("TypeError")
          [] ~ValidateGe0(e.v) -> failed("ValueError")
          [] ~t.ok -> failed(t.err)
          [] ~ValidateIsScalar(t.v) -> failed("TypeError")
          [] ~ValidateGt0(t.v) -> failed("ValueError")
          [] ~m.ok -> failed(m.err)
          [] ~ValidateIsScalar(m.v) -> failed("TypeError")
          [] ~ValidateGe0(m.v) -> failed("ValueError")
          [] OTHER -> built(inst)

\* BEI(order, energy_bound, temperature, chemical_potential)
BEIInit(a) ==
    LET o == IntConverter(a.order)
        e == EnergyConverter(a.energy_bound)
        t == TemperatureConverter(a.temperature)
        m == EnergyConverter(a.chemical_potential)
        inst == [order |-> o.v, energy_bound |-> e.v, temperature |-> t.v,
                 chemical_potential |-> m.v]
        built(x) == [ok |-> TRUE, bei |-> x, err |-> "none"]
        failed(x) == [ok |-> FALSE, bei |-> NoBEI, err |-> x]
    IN  CASE ~o.ok -> failed(o.err)
          [] ~e.ok -> failed(e.err)
          [] ~t.ok -> failed(t.err)
          [] ~m.ok -> failed(m.err)
          [] ~ValidateIsScalar(e.v) -> failed("TypeError")
          [] ~ValidateGe0(e.v) -> failed("ValueError")
          [] ~ValidateIsScalar(t.v) -> failed("TypeError")
          [] ~ValidateGt0(t.v) -> failed("ValueError")
          [] ~ValidateIsScalar(m.v) -> failed("TypeError")
          [] ~ValidateGe0(m.v) -> failed("ValueError")
          [] OTHER -> built(inst)

(***************************************************************************)
(* Constructor arguments.                                                  *)
(***************************************************************************)
IntArg(n) == [kind |-> "int", q |-> RInt(n), s |-> <<>>]
FloatArg(q) == [kind |-> "float", q |-> q, s |-> <<>>]
StrArg(s) == [kind |-> "str", q |-> RZero, s |-> s]
NumArg(v) == [kind |-> "num", v |-> v, unit |-> "none", n |-> 1]
QtyArg(v, u) == [kind |-> "qty", v |-> v, unit |-> u, n |-> 1]
ListArg(v, u, n) == [kind |-> "list", v |-> v, unit |-> u, n |-> n]
ArrayArg(v, u, n) == [kind |-> "array", v |-> v, unit |-> u, n |-> n]
ListOrderArg(q, n) == [kind |-> "list", q |-> q, s |-> <<>>, n |-> n]
ArrayOrderArg(q, n) == [kind |-> "array", q |-> q, s |-> <<>>, n |-> n]

\* Orders 0..MaxOrder as int, as float (whole and half values) and as
\* strings ("2", "02", "2.0", "2.3", "").
OrderArgs ==
    {IntArg(n) : n \in 0..MaxOrder}
    \cup {FloatArg(Rat(n, 2)) : n \in 0..(2 * MaxOrder)}
    \cup {StrArg(<<Digits[n + 1]>>) : n \in 0..MaxOrder}
    \cup {StrArg(<<"0", Digits[n + 1]>>) : n \in 0..MaxOrder}
    \cup {StrArg(<<Digits[n + 1], ".", "0">>) : n \in 0..MaxOrder}
    \cup {StrArg(<<Digits[n + 1], ".", "3">>) : n \in 0..MaxOrder}
    \cup {StrArg(<<>>)}

EnergyArgs ==
    {NumArg(Fin(RInt(n))) : n \in -1..MaxEnergy}
    \cup {NumArg(Fin(RInt(BigEnergy))), NumArg(PInf)}

TemperatureArgs == {NumArg(Fin(RInt(n))) : n \in -1..MaxTemp}

ArgSets ==
    [order : OrderArgs, energy_bound : EnergyArgs,
     temperature : TemperatureArgs, chemical_potential : EnergyArgs]

\* Arguments of any kind a caller can pass: negative and fractional
\* orders, unit-tagged quantities (eV, K, deg_C, s), lists and arrays.
AnyOrderArgs ==
    {IntArg(n) : n \in -1..2}
    \cup {FloatArg(<<5, 2>>), StrArg(<<"-", "1">>), StrArg(<<"2", ".", "3">>)}
    \cup {ListOrderArg(RInt(2), n) : n \in {1, 2}}
    \cup {ArrayOrderArg(q, n) : q \in {RInt(2), <<5, 2>>}, n \in {1, 2}}

AnyEnergyArgs ==
    {NumArg(Fin(RInt(n))) : n \in -1..1}
    \cup {QtyArg(Fin(RInt(n)), u) : n \in -1..1, u \in {"eV", "s"}}
    \cup {ListArg(Fin(ROne), u, 2) : u \in {"none", "eV", "s"}}
    \cup {ArrayArg(Fin(ROne), u, n) : u \in {"none", "eV"}, n \in {1, 2}}

AnyTemperatureArgs ==
    {NumArg(Fin(RInt(n))) : n \in 0..1}
    \cup {QtyArg(Fin(RInt(n)), "K") : n \in 0..1}
    \cup {QtyArg(Fin(c), "deg_C") :
             c \in {RInt(-274), RNeg(CelsiusOffset), RInt(-273), RZero}}
    \cup {QtyArg(Fin(ROne), "s")}
    \cup {ListArg(Fin(ROne), u, 2) : u \in {"none", "K", "deg_C", "s"}}
    \cup {ArrayArg(Fin(ROne), u, n) : u \in {"none", "deg_C", "s"}, n \in {1, 2}}

AnyArgSets ==
    [order : AnyOrderArgs, energy_bound : AnyEnergyArgs,
     temperature : AnyTemperatureArgs, chemical_potential : AnyEnergyArgs]

(***************************************************************************)
(* The state: the arguments of one construction, the instance it yields    *)
(* (or the exception it raises) and the last evaluation call on the        *)
(* instance with its outcome.  bei2 is a second instance; thr and frames   *)
(* are the calls running in threads and their local variables; cell is a   *)
(* solar cell, whose attribute bei is the variable bei.                    *)
(***************************************************************************)
VARIABLES args, pc, bei, exc, call, ret, bei2, thr, frames, cell, prop, hist

vars ==
    <<args, pc, bei, exc, call, ret, bei2, thr, frames, cell, prop, hist>>

NoRet == Raised("none")

Threads == {"t1", "t2"}
IdleThread ==
    [pc |-> "idle", name |-> "none", obj |-> 1, ret |-> NoRet, conc |-> FALSE]
NoThreads == [t \in Threads |-> IdleThread]
NoFrames == [t \in Threads |-> NoBEI]
NoCell == [kind |-> "none", bandgap |-> NaN, solar_temperature |-> NaN,
           planetary_temperature |-> NaN, voltage |-> NaN]

\* prop is a PhysicalProperty descriptor with the values it stores per
\* owner; hist is, per owner, the argument of the last __set__ that returned.
Owners == {"mock1", "mock2"}
NoProp == [unit |-> "none", lo_bnd |-> NaN, up_bnd |-> NaN,
           data |-> [o \in Owners |-> "none"]]
NoHist == [o \in Owners |-> [kind |-> "unset"]]

Init ==
    /\ args \in ArgSets
    /\ pc = "new"
    /\ bei = NoBEI
    /\ exc = "none"
    /\ call = "none"
    /\ ret = NoRet
    /\ bei2 = NoBEI
    /\ thr = NoThreads
    /\ frames = NoFrames
    /\ cell = NoCell
    /\ prop = NoProp
    /\ hist = NoHist

Construct ==
    /\ pc = "new"
    /\ LET r == BEIInit(args)
       IN  /\ pc' = IF r.ok THEN "built" ELSE "failed"
           /\ bei' = r.bei
           /\ exc' = r.err
    /\ UNCHANGED <<args, call, ret, bei2, thr, frames, cell, prop, hist>>

Call(name, outcome) ==
    /\ pc = "built"
    /\ call' = name
    /\ ret' = outcome
    /\ UNCHANGED <<args, pc, bei, exc, bei2, thr, frames, cell, prop, hist>>

CallUpper == Call("upper", upper(bei))
CallFull == Call("full", full(bei))
CallLower == Call("lower", lower(bei))
CallPhotonFlux == Call("photon_flux", photon_flux(bei))
CallRadiantPowerFlux == Call("radiant_power_flux", radiant_power_flux(bei))

\* The properties; a reduced quantity is a dimensionless float.
FloatQty(x) ==
    Qty(Dimensionless,
        IF x.k = "fin" THEN VRat(x.q)
        ELSE {Mono(ROne, 0, 0, 0, [t |-> x.k, k |-> 0, n |-> 0, d |-> 1])})

CallKT == Call("kT", kT(bei))
CallReducedEnergyBound ==
    Call("reduced_energy_bound", FloatQty(reduced_energy_bound(bei)))
CallReducedChemicalPotential ==
    Call("reduced_chemical_potential",
         FloatQty(reduced_chemical_potential(bei)))
CallPrefactor == Call("prefactor", prefactor(bei))

\* An assignment that stores the value (a class that is not frozen).
SetAttr_writes(b, field, value) ==
    [bei |-> [b EXCEPT ![field] = value],
     out |-> Qty(Dimensionless, VZero)]

\* instance.field = value on an attrs.frozen class: FrozenInstanceError.
SetAttr(b, field, value) ==
    [bei |-> b, out |-> Raised("FrozenInstanceError")]

FieldValues(field) ==
    IF field = "order" THEN 0..MaxOrder
    ELSE {Fin(RInt(n)) : n \in 1..MaxEnergy}

AssignField ==
    /\ pc = "built"
    /\ \E field \in {"order", "energy_bound", "temperature",
                      "chemical_potential"} :
          \E value \in FieldValues(field) :
             /\ bei' = SetAttr(bei, field, value).bei
             /\ ret' = SetAttr(bei, field, value).out
    /\ call' = "setattr"
    /\ UNCHANGED <<args, pc, exc, bei2, thr, frames, cell, prop, hist>>

Next ==
    \/ Construct
    \/ CallUpper
    \/ CallFull
    \/ CallLower
    \/ CallPhotonFlux
    \/ CallRadiantPowerFlux
    \/ CallKT
    \/ CallReducedEnergyBound
    \/ CallReducedChemicalPotential
    \/ CallPrefactor
    \/ AssignField

Spec == Init /\ [][Next]_vars

(***************************************************************************)
(* Evaluation calls in threads, on the instances bei (obj 1) and bei2      *)
(* (obj 2).  A call reads the fields of its instance in two steps: the     *)
(* reduced quantities when it starts, kept in its local variables, and     *)
(* order and prefactor when it computes the result.                        *)
(***************************************************************************)
ThreadCalls == {"upper", "full", "lower", "photon_flux", "radiant_power_flux"}

MethodOutcome(name, b) ==
    CASE name = "upper" -> upper(b)
      [] name = "full" -> full(b)
      [] name = "lower" -> lower(b)
      [] name = "photon_flux" -> photon_flux(b)
      [] OTHER -> radiant_power_flux(b)

Obj(i) == IF i = 1 THEN bei ELSE bei2

\* One frame of local variables for all threads.
Frame_shared(t) == "t1"

\* The local variables of a call belong to the thread that runs it.
Frame(t) == t

\* The fields as a call sees them: energy_bound and chemical_potential as
\* first read, order and temperature as read when the result is computed.
Mix(first, now) ==
    [order |-> now.order, energy_bound |-> first.energy_bound,
     temperature |-> now.temperature,
     chemical_potential |-> first.chemical_potential]

Begin(t) ==
    /\ pc = "built"
    /\ thr[t].pc = "idle"
    /\ \E name \in ThreadCalls, o \in {1, 2} :
          /\ thr' = [u \in Threads |->
                       IF u = t
                       THEN [pc |-> "running", name |-> name, obj |-> o,
                             ret |-> NoRet,
                             conc |-> \E w \in Threads : thr[w].pc = "running"]
                       ELSE [thr[u] EXCEPT
                               !.conc = @ \/ thr[u].pc = "running"]]
          /\ frames' = [frames EXCEPT ![Frame(t)] = Obj(o)]
    /\ UNCHANGED <<args, pc, bei, exc, call, ret, bei2, cell, prop, hist>>

Finish(t) ==
    /\ thr[t].pc = "running"
    /\ thr' = [thr EXCEPT
                 ![t].pc = "done",
                 ![t].ret = MethodOutcome(thr[t].name,
                                Mix(frames[Frame(t)], Obj(thr[t].obj)))]
    /\ UNCHANGED <<args, pc, bei, exc, call, ret, bei2, frames, cell,
                 prop, hist>>

BeginCall == \E t \in Threads : Begin(t)
FinishCall == \E t \in Threads : Finish(t)

ThreadArgSets ==
    [order : {IntArg(0), IntArg(2)},
     energy_bound : {NumArg(Fin(RInt(n))) : n \in 0..1},
     temperature : {NumArg(Fin(ROne))},
     chemical_potential : {NumArg(Fin(RInt(n))) : n \in 0..1}]

InitThreads ==
    /\ args \in ThreadArgSets
    /\ pc = "built"
    /\ bei = BEIInit(args).bei
    /\ exc = "none"
    /\ call = "none"
    /\ ret = NoRet
    /\ bei2 \in {BEIInit(a).bei : a \in ThreadArgSets}
    /\ thr = NoThreads
    /\ frames = NoFrames
    /\ cell = NoCell
    /\ prop = NoProp
    /\ hist = NoHist

NextThreads ==
    \/ BeginCall
    \/ FinishCall
    \/ AssignField

SpecThreads == InitThreads /\ [][NextThreads]_vars

(***************************************************************************)
(* SQSolarcell and DeVosSolarcell.  A cell is a record [kind, bandgap,     *)
(* solar_temperature, planetary_temperature, voltage]; its attribute bei,  *)
(* set by __attrs_post_init__, is the variable bei.  Energies are numbers  *)
(* of eV, so the electron energy e * voltage is the number of volts.       *)
(***************************************************************************)
UnitFlux == Unit(0, -2, -1, 0)
UnitWattPerM2 == Unit(1, -2, -1, 0)

\* BEI(order=2, energy_bound=bandgap, temperature=..., chemical_potential=...)
CellBEI(bandgap, temperature, mu) ==
    BEIInit([order |-> IntArg(2),
             energy_bound |-> QtyArg(bandgap, "eV"),
             temperature |-> QtyArg(temperature, "K"),
             chemical_potential |-> mu])

\* SQSolarcell(...) / DeVosSolarcell(...): converters, validators, then
\* __attrs_post_init__.
CellInit(a) ==
    LET g == EnergyConverter(a.bandgap)
        ts == TemperatureConverter(a.solar_temperature)
        tp == TemperatureConverter(a.planetary_temperature)
        v == ToQuantity(a.voltage, "V")
        devos == a.kind = "DeVos"
        post == CellBEI(g.v, ts.v, NumArg(Fin(RZero)))
        built == [ok |-> TRUE, err |-> "none", bei |-> post.bei,
                  cell |-> [kind |-> a.kind, bandgap |-> g.v,
                            solar_temperature |-> ts.v,
                            planetary_temperature |-> IF devos THEN tp.v ELSE NaN,
                            voltage |-> IF devos THEN v.v ELSE NaN]]
        failed(x) == [ok |-> FALSE, err |-> x, bei |-> NoBEI, cell |-> NoCell]
    IN  CASE ~g.ok -> failed(g.err)
          [] ~ts.ok -> failed(ts.err)
          [] devos /\ ~tp.ok -> failed(tp.err)
          [] devos /\ ~v.ok -> failed(v.err)
          [] ~ValidateIsScalar(g.v) -> failed("TypeError")
          [] ~ValidateGe0(g.v) -> failed("ValueError")
          [] ~ValidateIsScalar(ts.v) -> failed("TypeError")
          [] ~ValidateGt0(ts.v) -> failed("ValueError")
          [] devos /\ ~ValidateIsScalar(tp.v) -> failed("TypeError")
          [] devos /\ ~ValidateGt0(tp.v) -> failed("ValueError")
          [] devos /\ ~ValidateIsScalar(v.v) -> failed("TypeError")
          [] ~post.ok -> failed(post.err)
          [] OTHER -> built

\* energy * flux for a finite energy x (a number of eV)
EnergyTimes(x, flux) ==
    IF ~flux.ok THEN flux
    ELSE Qty(UMul(UnitEnergy, flux.unit), VScale(flux.val, x.q))

ZeroFlux == Qty(UnitFlux, VZero)

\* power_density without the factor bandgap (the flux times 1 eV).
SQ_power_density_perEV(c, b) ==
    LET solar_flux == IF FEq(c.bandgap, FZeroF) THEN ZeroFlux ELSE upper(b)
    IN  QTo(EnergyTimes(Fin(ROne), solar_flux), UnitWattPerM2)

\* SQSolarcell.power_density
SQ_power_density(c, b) ==
    LET solar_flux == IF FEq(c.bandgap, FZeroF) THEN ZeroFlux ELSE upper(b)
    IN  QTo(EnergyTimes(c.bandgap, solar_flux), UnitWattPerM2)

\* power_density with the cell's flux taken at the solar temperature.
DeVos_power_density_solarT(c, b) ==
    LET electron_energy == c.voltage
        local == CellBEI(c.bandgap, c.solar_temperature,
                         QtyArg(electron_energy, "eV"))
    IN  IF FEq(c.bandgap, FZeroF)
        THEN QTo(EnergyTimes(electron_energy, QSub(ZeroFlux, ZeroFlux)),
                 UnitWattPerM2)
        ELSE IF ~local.ok THEN Raised(local.err)
        ELSE QTo(EnergyTimes(electron_energy,
                             QSub(upper(b), upper(local.bei))),
                 UnitWattPerM2)

\* power_density without the bandgap == 0 case: both fluxes from upper().
DeVos_power_density_noGuard(c, b) ==
    LET electron_energy == c.voltage
        local == CellBEI(c.bandgap, c.planetary_temperature,
                         QtyArg(electron_energy, "eV"))
    IN  IF ~local.ok THEN Raised(local.err)
        ELSE QTo(EnergyTimes(electron_energy,
                             QSub(upper(b), upper(local.bei))),
                 UnitWattPerM2)

\* DeVosSolarcell.power_density
DeVos_power_density(c, b) ==
    LET electron_energy == c.voltage
        local == CellBEI(c.bandgap, c.planetary_temperature,
                         QtyArg(electron_energy, "eV"))
    IN  IF FEq(c.bandgap, FZeroF)
        THEN QTo(EnergyTimes(electron_energy, QSub(ZeroFlux, ZeroFlux)),
                 UnitWattPerM2)
        ELSE IF ~local.ok THEN Raised(local.err)
        ELSE QTo(EnergyTimes(electron_energy,
                             QSub(upper(b), upper(local.bei))),
                 UnitWattPerM2)

\* efficiency() calling the base class method for every cell.
power_density_base(c, b) == SQ_power_density(c, b)

\* self.power_density(): the method of the cell's own class
power_density(c, b) ==
    IF c.kind = "DeVos" THEN DeVos_power_density(c, b)
    ELSE SQ_power_density(c, b)

\* a / b for b a single term, decomposed
QDiv(a, b) ==
    IF ~a.ok THEN a
    ELSE IF ~b.ok THEN b
    ELSE LET m == CHOOSE t \in b.val : TRUE
         IN  Qty(UDiv(a.unit, b.unit),
                 MulMono(a.val, Mono(RDiv(ROne, m.c), -m.pi, -m.kB, -m.hc, FOne)))

\* SQSolarcell.efficiency (inherited by DeVosSolarcell)
efficiency(c, b) == QDiv(power_density(c, b), radiant_power_flux(b))

CellArgSets ==
    [kind : {"DeVos"},
     bandgap : {NumArg(Fin(RInt(n))) : n \in -1..MaxEnergy}
                 \cup {NumArg(Fin(RInt(BigEnergy)))},
     solar_temperature : {NumArg(Fin(RInt(n))) : n \in 0..MaxTemp},
     planetary_temperature : {NumArg(Fin(RInt(n))) : n \in 0..MaxTemp},
     voltage : {NumArg(Fin(RInt(n))) : n \in -1..(MaxEnergy + 1)}]
    \cup
    [kind : {"SQ"},
     bandgap : {NumArg(Fin(RInt(n))) : n \in -1..MaxEnergy}
                 \cup {NumArg(Fin(RInt(BigEnergy)))},
     solar_temperature : {NumArg(Fin(RInt(n))) : n \in 0..MaxTemp},
     planetary_temperature : {NumArg(Fin(ROne))},
     voltage : {NumArg(Fin(RZero))}]

InitCell ==
    /\ args \in CellArgSets
    /\ pc = "new"
    /\ bei = NoBEI
    /\ exc = "none"
    /\ call = "none"
    /\ ret = NoRet
    /\ bei2 = NoBEI
    /\ thr = NoThreads
    /\ frames = NoFrames
    /\ cell = NoCell
    /\ prop = NoProp
    /\ hist = NoHist

ConstructCell ==
    /\ pc = "new"
    /\ LET r == CellInit(args)
       IN  /\ pc' = IF r.ok THEN "built" ELSE "failed"
           /\ cell' = r.cell
           /\ bei' = r.bei
           /\ exc' = r.err
    /\ UNCHANGED <<args, call, ret, bei2, thr, frames, prop, hist>>

CallPowerDensity ==
    cell.kind # "none" /\ Call("power_density", power_density(cell, bei))
CallEfficiency ==
    cell.kind # "none" /\ Call("efficiency", efficiency(cell, bei))

NextCell ==
    \/ ConstructCell
    \/ CallPowerDensity
    \/ CallEfficiency

SpecCell == InitCell /\ [][NextCell]_vars

\* Construction alone, over arguments of any kind.
InitAnyArgs ==
    /\ args \in AnyArgSets
    /\ pc = "new"
    /\ bei = NoBEI
    /\ exc = "none"
    /\ call = "none"
    /\ ret = NoRet
    /\ bei2 = NoBEI
    /\ thr = NoThreads
    /\ frames = NoFrames
    /\ cell = NoCell
    /\ prop = NoProp
    /\ hist = NoHist

NextConstruct == Construct

SpecConstruct == InitAnyArgs /\ [][NextConstruct]_vars

(***************************************************************************)
(* The legacy function uibei(order, energy_lo, temp, chem_potential), in   *)
(* its two versions: ibei/uibei.py and ibei/main.py.  Arguments are plain  *)
(* numbers; the arguments of a call are held as the record                 *)
(* [order, energy_bound, temperature, chemical_potential].  temp = 0       *)
(* passes the range checks and then divides by kT = 0; it is not among     *)
(* the arguments drawn here.                                               *)
(***************************************************************************)
\* The range checks at the head of both versions.
LegacyRangeError(b) ==
    \/ FLt(b.energy_bound, FZeroF)
    \/ FLt(b.temperature, FZeroF)
    \/ FLt(b.chemical_potential, FZeroF)

\* prefactor = 2 pi order! kT^(order+1) / (h^3 c^2)
LegacyPrefactor(b) ==
    LET fact == Factorial(b.order)
    IN  IF ~fact.ok THEN fact
        ELSE Qty(PrefactorUnit(b.order),
                 VScale({PrefactorMono(b)}, RatOf(fact)))

\* prefactor * summand
LegacyProduct(pre, summand) ==
    IF ~pre.ok THEN pre
    ELSE IF ~summand.ok THEN summand
    ELSE Qty(pre.unit,
             UNION {MulMono(summand.val, m) : m \in pre.val})

\* uibei of ibei/uibei.py (the one the package exports)
uibei(b) ==
    IF LegacyRangeError(b) THEN Raised("ValueError")
    ELSE LET pre == LegacyPrefactor(b)
         IN  IF ~pre.ok THEN pre
             ELSE IF FGe(reduced_chemical_potential(b), reduced_energy_bound(b))
             THEN Qty(pre.unit, VZero)
             ELSE LegacyProduct(pre, SeriesLoop(b, 1, Qty(Dimensionless, VZero)))

\* uibei of ibei/main.py: the test is > and the zero is the float 0.
main_uibei(b) ==
    IF LegacyRangeError(b) THEN Raised("ValueError")
    ELSE IF FGt(reduced_chemical_potential(b), reduced_energy_bound(b))
    THEN Qty(Dimensionless, VZero)
    ELSE LET pre == LegacyPrefactor(b)
         IN  IF ~pre.ok THEN pre
             ELSE LegacyProduct(pre, SeriesLoop(b, 1, Qty(Dimensionless, VZero)))

LegacyArgSets ==
    [order : 0..MaxOrder,
     energy_bound : {Fin(RInt(n)) : n \in -1..MaxEnergy},
     temperature : {Fin(RInt(n)) : n \in {-1} \cup 1..MaxTemp},
     chemical_potential : {Fin(RInt(n)) : n \in -1..MaxEnergy}]

InitLegacy ==
    /\ args \in LegacyArgSets
    /\ pc = "legacy"
    /\ bei = NoBEI
    /\ exc = "none"
    /\ call = "none"
    /\ ret = NoRet
    /\ bei2 = NoBEI
    /\ thr = NoThreads
    /\ frames = NoFrames
    /\ cell = NoCell
    /\ prop = NoProp
    /\ hist = NoHist

LegacyCall(name, outcome) ==
    /\ pc = "legacy"
    /\ call' = name
    /\ ret' = outcome
    /\ UNCHANGED <<args, pc, bei, exc, bei2, thr, frames, cell, prop, hist>>

CallUibei == LegacyCall("uibei", uibei(args))
CallMainUibei == LegacyCall("main.uibei", main_uibei(args))

NextLegacy ==
    \/ CallUibei
    \/ CallMainUibei

SpecLegacy == InitLegacy /\ [][NextLegacy]_vars

(***************************************************************************)
(* The descriptor PhysicalProperty of electrode/physicalproperty.py.       *)
(* A unit is a dimension with a scale against the dimension's smallest     *)
(* unit here; a stored value is None or a quantity [v, unit] with v a      *)
(* float.  An argument of __set__ is a float, a Quantity, an instance of   *)
(* a subclass of Quantity (an astropy Constant), a string or None.         *)
(***************************************************************************)
MaxBound == 2

PUnit(dim, scale) == [dim |-> dim, scale |-> scale]
Unscaled == PUnit("none", 1)
Millimetre == PUnit("length", 1)
Metre == PUnit("length", 1000)
Second == PUnit("time", 1)

None == [k |-> "None", v |-> NaN, unit |-> Unscaled]
Quantity(v, unit) == [k |-> "Quantity", v |-> v, unit |-> unit]

\* v * r for a rational r > 0
FScale(v, r) == IF v.k = "fin" THEN Fin(RMul(v.q, r)) ELSE v

\* val.to(unit)
QuantityTo(val, unit) ==
    IF val.unit.dim # unit.dim
    THEN [ok |-> FALSE, err |-> "UnitConversionError", val |-> None]
    ELSE [ok |-> TRUE, err |-> "none",
          val |-> Quantity(FScale(val.v, <<val.unit.scale, unit.scale>>),
                           unit)]

FloatVal(v) == [kind |-> "float", v |-> v, unit |-> Unscaled, s |-> <<>>]
QuantityVal(v, u) == [kind |-> "Quantity", v |-> v, unit |-> u, s |-> <<>>]
ConstantVal(v, u) == [kind |-> "Constant", v |-> v, unit |-> u, s |-> <<>>]
StrVal(s) == [kind |-> "str", v |-> NaN, unit |-> Unscaled, s |-> s]
NoneVal == [kind |-> "None", v |-> NaN, unit |-> Unscaled, s |-> <<>>]

\* float(val) for a val that is not exactly of type Quantity
FloatOf(val) ==
    CASE val.kind = "float" -> [ok |-> TRUE, err |-> "none", v |-> val.v]
      [] val.kind = "str" ->
            IF StrParsesAsInt(val.s)
            THEN [ok |-> TRUE, err |-> "none",
                  v |-> Fin(RInt(StrToInt(val.s)))]
            ELSE [ok |-> FALSE, err |-> "ValueError", v |-> NaN]
      [] val.kind = "Constant" /\ val.unit.dim = "none" ->
            [ok |-> TRUE, err |-> "none",
             v |-> FScale(val.v, <<val.unit.scale, 1>>)]
      [] OTHER -> [ok |-> FALSE, err |-> "TypeError", v |-> NaN]

\* PhysicalProperty.__init__
PhysicalProperty_init(unit, up_bnd, lo_bnd) ==
    IF FLt(up_bnd, lo_bnd)
    THEN [ok |-> FALSE, err |-> "ValueError", prop |-> NoProp]
    ELSE [ok |-> TRUE, err |-> "none",
          prop |-> [unit |-> unit, lo_bnd |-> lo_bnd, up_bnd |-> up_bnd,
                    data |-> [o \in Owners |-> None]]]

\* PhysicalProperty.__get__
PhysicalProperty_get(p, instance) == p.data[instance]

\* The conversion at the head of __set__: to a quantity in self._unit.
SetConverted(p, val) ==
    IF val.kind = "Quantity" THEN QuantityTo(Quantity(val.v, val.unit), p.unit)
    ELSE LET f == FloatOf(val)
         IN  IF f.ok THEN [ok |-> TRUE, err |-> "none",
                           val |-> Quantity(f.v, p.unit)]
             ELSE [ok |-> FALSE, val |-> None,
                   err |-> IF f.err = "ValueError" THEN "TypeError" ELSE f.err]

\* __set__ that stores the converted value before the bounds are checked.
PhysicalProperty_set_storeFirst(p, instance, val) ==
    LET c == SetConverted(p, val)
    IN  IF ~c.ok THEN [err |-> c.err, data |-> p.data]
        ELSE [err |-> IF FLt(c.val.v, p.lo_bnd) \/ FGt(c.val.v, p.up_bnd)
                      THEN "ValueError" ELSE "none",
              data |-> [p.data EXCEPT ![instance] = c.val]]

\* __set__ that keeps one value for all owners.
PhysicalProperty_set_shared(p, instance, val) ==
    LET c == SetConverted(p, val)
    IN  IF ~c.ok THEN [err |-> c.err, data |-> p.data]
        ELSE IF FLt(c.val.v, p.lo_bnd) \/ FGt(c.val.v, p.up_bnd)
        THEN [err |-> "ValueError", data |-> p.data]
        ELSE [err |-> "none", data |-> [o \in Owners |-> c.val]]

\* PhysicalProperty.__set__: the exception raised, if any, and self._data
PhysicalProperty_set(p, instance, val) ==
    LET c == SetConverted(p, val)
    IN  IF ~c.ok THEN [err |-> c.err, data |-> p.data]
        ELSE IF FLt(c.val.v, p.lo_bnd) THEN [err |-> "ValueError", data |-> p.data]
        ELSE IF FGt(c.val.v, p.up_bnd) THEN [err |-> "ValueError", data |-> p.data]
        ELSE [err |-> "none", data |-> [p.data EXCEPT ![instance] = c.val]]

PropertyUnits == {Unscaled, Millimetre}
PropertyBounds == {NInf, PInf, Fin(RZero), Fin(RInt(MaxBound))}
Properties ==
    {PhysicalProperty_init(u, up, lo).prop :
        <<u, up, lo>> \in
            {x \in PropertyUnits \X PropertyBounds \X PropertyBounds :
                PhysicalProperty_init(x[1], x[2], x[3]).ok}}

SetVals ==
    {FloatVal(Fin(RInt(n))) : n \in {-2, 1, MaxBound + 1}}
    \cup {FloatVal(NaN)}
    \cup {QuantityVal(Fin(RInt(n)), u) :
            n \in {-2, 1}, u \in {Unscaled, Millimetre, Metre, Second}}
    \cup {ConstantVal(Fin(ROne), u) : u \in {Unscaled, Millimetre, Second}}
    \cup {StrVal(<<"1">>), StrVal(<<"x">>), NoneVal}

InitProperty ==
    /\ args = [owner |-> "none", val |-> NoneVal]
    /\ pc = "class"
    /\ bei = NoBEI
    /\ exc = "none"
    /\ call = "none"
    /\ ret = None
    /\ bei2 = NoBEI
    /\ thr = NoThreads
    /\ frames = NoFrames
    /\ cell = NoCell
    /\ prop \in Properties
    /\ hist = NoHist

\* instance.attrib = val
SetAttrib(instance, val) ==
    /\ pc = "class"
    /\ LET r == PhysicalProperty_set(prop, instance, val)
       IN  /\ prop' = [prop EXCEPT !.data = r.data]
           /\ exc' = r.err
           /\ hist' = IF r.err = "none" THEN [hist EXCEPT ![instance] = val]
                      ELSE hist
    /\ call' = "__set__"
    /\ args' = [owner |-> instance, val |-> val]
    /\ UNCHANGED <<pc, bei, ret, bei2, thr, frames, cell>>

\* instance.attrib
GetAttrib(instance) ==
    /\ pc = "class"
    /\ ret' = PhysicalProperty_get(prop, instance)
    /\ exc' = "none"
    /\ call' = "__get__"
    /\ args' = [owner |-> instance, val |-> NoneVal]
    /\ UNCHANGED <<pc, bei, bei2, thr, frames, cell, prop, hist>>

SetAny == \E o \in Owners, val \in SetVals : SetAttrib(o, val)
GetAny == \E o \in Owners : GetAttrib(o)

NextProperty ==
    \/ SetAny
    \/ GetAny

SpecProperty == InitProperty /\ [][NextProperty]_vars

(***************************************************************************)
(* Properties.                                                             *)
(***************************************************************************)
Built == pc = "built"
Returned(name) == call = name /\ ret.ok
MuIsZero == FEq(reduced_chemical_potential(bei), FZeroF)
BoundIsZero == FEq(reduced_energy_bound(bei), FZeroF)
ZeroResult == Qty(PrefactorUnit(bei.order), VZero)

\* The product of two outcomes, the second a plain factor (one term or
\* zero); the first exception raised is the outcome.
QTimes(a, f) ==
    IF ~a.ok THEN a
    ELSE IF ~f.ok THEN f
    ELSE IF f.val = {} THEN Qty(UMul(a.unit, f.unit), VZero)
    ELSE Qty(UMul(a.unit, f.unit), MulMono(a.val, CHOOSE m \in f.val : TRUE))

C2_UpperZeroWhenMuGeE ==
    ( /\ call = "upper"
      /\ FGe(reduced_chemical_potential(bei), reduced_energy_bound(bei))
      /\ ~(MuIsZero /\ BoundIsZero) )
    => /\ ret.ok
       /\ ret.val = VZero
       /\ UpperBranch(bei) = "mu_ge_E"

C2_EqualWitness ==
    /\ Returned("upper")
    /\ bei.chemical_potential = bei.energy_bound
    /\ FGt(bei.energy_bound, FZeroF)
    /\ bei.energy_bound.k = "fin"

\* C3 (as the specification states it): with energy bound 0 and chemical
\* potential 0, upper() takes the singular branch and returns
\* prefactor * order! * Li_{order+1}(1), a strictly positive value, for
\* every order >= 0.
C3_SingularPositiveEveryOrder ==
    (call = "upper" /\ MuIsZero /\ BoundIsZero)
    => /\ UpperBranch(bei) = "singular"
       /\ ret.ok
       /\ VPositive(ret.val)
       /\ ret = QTimes(QTimes(prefactor(bei), Factorial(bei.order)),
                       Qty(Dimensionless, Zeta(bei.order + 1)))

C7_FullMatchesFluxes ==
    (call = "full" /\ MuIsZero)
    => /\ bei.order = 2 => ret.ok /\ ret = photon_flux(bei)
       /\ bei.order = 3 =>
            /\ ret.ok
            /\ ret = radiant_power_flux(bei)
            /\ ret = Qty(Unit(1, -2, -1, 0),
                         VMono(RMul(<<2, 15>>, RPow(bei.temperature.q, 4)),
                               5, 4, 1, FOne))

C7_StefanBoltzmannWitness ==
    /\ Returned("full")
    /\ MuIsZero
    /\ bei.order = 3
    /\ bei.temperature = Fin(RInt(MaxTemp))

\* C8: a value returned by upper(), in any of its four branches, carries
\* the unit of prefactor for the order of the instance; a zero result is
\* not unit-less; the values of lower() and full() carry that unit too.
C8_UnitsAgree ==
    (ret.ok /\ call \in {"upper", "lower", "full"})
    => /\ ret.unit = prefactor(bei).unit
       /\ ret.unit # Dimensionless

C8_ZeroWithUnitWitness ==
    /\ Returned("upper")
    /\ UpperBranch(bei) = "underflow"
    /\ ret.val = VZero
    /\ bei.order = 3

\* C9: a construction with temperature <= 0, energy bound < 0 or chemical
\* potential < 0 (and an acceptable order) raises ValueError and yields no
\* instance; energy bound 0 and chemical potential 0 are accepted.
C9_RangeErrors ==
    (pc # "new" /\ IntConverter(args.order).ok)
    => /\ ( \/ ~FGt(args.temperature.v, FZeroF)
            \/ FLt(args.energy_bound.v, FZeroF)
            \/ FLt(args.chemical_potential.v, FZeroF) )
          => pc = "failed" /\ exc = "ValueError" /\ bei = NoBEI
       /\ ( /\ FGt(args.temperature.v, FZeroF)
            /\ FEq(args.energy_bound.v, FZeroF)
            /\ FEq(args.chemical_potential.v, FZeroF) )
          => /\ pc = "built"
             /\ bei.energy_bound = FZeroF
             /\ bei.chemical_potential = FZeroF

C9_ZeroTemperatureWitness ==
    /\ pc = "failed"
    /\ exc = "ValueError"
    /\ args.temperature.v = FZeroF
    /\ args.energy_bound.v = FZeroF
    /\ args.chemical_potential.v = FZeroF

\* An order argument that is an integer, an integer-valued float or a
\* string of digits, and the integer it denotes.
IsWholeOrder(a) ==
    IF a.kind = "str"
    THEN Len(a.s) > 0 /\ \A i \in 1..Len(a.s) : IsDigit(a.s[i])
    ELSE a.q[2] = 1

WholeOrder(a) ==
    IF a.kind = "str" THEN DigitsValue(a.s, 0) ELSE a.q[1]

\* C10: order is accepted exactly when it can be coerced to an integer
\* without truncation: an int, an integer-valued float or an integer
\* string is accepted and stored as that integer; a non-integer float or
\* string raises TypeError.
C10_OrderCoercion ==
    pc # "new" =>
        IF IsWholeOrder(args.order)
        THEN /\ pc = "failed" => exc # "TypeError"
             /\ pc = "built" => bei.order = WholeOrder(args.order)
        ELSE pc = "failed" /\ exc = "TypeError" /\ bei = NoBEI

C10_FloatAndStringWitness ==
    /\ pc = "built"
    /\ args.order.kind \in {"float", "str"}
    /\ bei.order = 2

\* C11 (as the specification states it): every constructed instance has
\* order >= 0; a negative integer order is rejected at construction.
C11_OrderNonNegative ==
    pc # "new" =>
        /\ pc = "built" => bei.order >= 0
        /\ (args.order.kind = "int" /\ RLt(args.order.q, RZero))
           => pc = "failed"

\* Arguments a field accepts as a scalar, and non-scalar arguments whose
\* elements are bare numbers or carry a unit the field converts.
IsNonScalarArg(a) == a.kind \in {"list", "array"}
AcceptableOrderArg(a) == ~IsNonScalarArg(a) /\ IntConverter(a).ok
AcceptableEnergyArg(a) ==
    ~IsNonScalarArg(a) /\ a.unit \in {"none", "eV"} /\ FGe(a.v, FZeroF)
AcceptableTemperatureArg(a) ==
    /\ ~IsNonScalarArg(a)
    /\ a.unit \in {"none", "K", "deg_C"}
    /\ FGt(TemperatureConverter(a).v, FZeroF)
NonScalarEnergyArg(a) == IsNonScalarArg(a) /\ a.unit \in {"none", "eV"}
NonScalarTemperatureArg(a) ==
    IsNonScalarArg(a) /\ a.unit \in {"none", "K", "deg_C"}

\* Exactly one field is given a non-scalar value, the others acceptable.
OneNonScalarArg ==
    \/ /\ IsNonScalarArg(args.order)
       /\ AcceptableEnergyArg(args.energy_bound)
       /\ AcceptableTemperatureArg(args.temperature)
       /\ AcceptableEnergyArg(args.chemical_potential)
    \/ /\ AcceptableOrderArg(args.order)
       /\ NonScalarEnergyArg(args.energy_bound)
       /\ AcceptableTemperatureArg(args.temperature)
       /\ AcceptableEnergyArg(args.chemical_potential)
    \/ /\ AcceptableOrderArg(args.order)
       /\ AcceptableEnergyArg(args.energy_bound)
       /\ NonScalarTemperatureArg(args.temperature)
       /\ AcceptableEnergyArg(args.chemical_potential)
    \/ /\ AcceptableOrderArg(args.order)
       /\ AcceptableEnergyArg(args.energy_bound)
       /\ AcceptableTemperatureArg(args.temperature)
       /\ NonScalarEnergyArg(args.chemical_potential)

\* C12 (as the specification states it): a construction with a list or
\* an array for any one of the four fields raises TypeError, whether the
\* elements are bare numbers or quantities.
C12_NonScalarRaisesTypeError ==
    (pc # "new" /\ OneNonScalarArg) => pc = "failed" /\ exc = "TypeError"

\* A scalar quantity in a unit the field cannot convert (seconds).
IncompatibleArg(a) == a.kind = "qty" /\ a.unit = "s"

\* C13: a construction whose energy_bound, temperature or chemical
\* potential is a quantity of an incompatible dimension (the other
\* arguments acceptable) raises UnitConversionError; so does temperature,
\* whose converter catches the first conversion error and retries.
C13_IncompatibleUnits ==
    ( /\ pc # "new"
      /\ AcceptableOrderArg(args.order)
      /\ (AcceptableEnergyArg(args.energy_bound)
            \/ IncompatibleArg(args.energy_bound))
      /\ (AcceptableTemperatureArg(args.temperature)
            \/ IncompatibleArg(args.temperature))
      /\ (AcceptableEnergyArg(args.chemical_potential)
            \/ IncompatibleArg(args.chemical_potential))
      /\ \/ IncompatibleArg(args.energy_bound)
         \/ IncompatibleArg(args.temperature)
         \/ IncompatibleArg(args.chemical_potential) )
    => pc = "failed" /\ exc = "UnitConversionError" /\ bei = NoBEI

C13_TemperatureInSecondsWitness ==
    /\ pc = "failed"
    /\ exc = "UnitConversionError"
    /\ IncompatibleArg(args.temperature)
    /\ AcceptableOrderArg(args.order)
    /\ AcceptableEnergyArg(args.energy_bound)
    /\ AcceptableEnergyArg(args.chemical_potential)

\* C14: a scalar Celsius temperature (the other arguments acceptable) is
\* accepted exactly when its kelvin equivalent, the value plus 273.15, is
\* strictly positive, and the stored temperature is that kelvin value;
\* otherwise the construction raises ValueError.
C14_CelsiusRangeCheck ==
    ( /\ pc # "new"
      /\ AcceptableOrderArg(args.order)
      /\ AcceptableEnergyArg(args.energy_bound)
      /\ AcceptableEnergyArg(args.chemical_potential)
      /\ args.temperature.kind = "qty"
      /\ args.temperature.unit = "deg_C" )
    => IF RLt(RZero, RAdd(args.temperature.v.q, <<27315, 100>>))
       THEN /\ pc = "built"
            /\ bei.temperature
                 = Fin(RAdd(args.temperature.v.q, <<27315, 100>>))
       ELSE pc = "failed" /\ exc = "ValueError" /\ bei = NoBEI

C14_ZeroCelsiusWitness ==
    /\ pc = "built"
    /\ args.temperature = QtyArg(Fin(RZero), "deg_C")
    /\ bei.temperature = Fin(<<5463, 20>>)

EvaluationCalls ==
    {"upper", "full", "lower", "photon_flux", "radiant_power_flux", "kT",
     "reduced_energy_bound", "reduced_chemical_potential", "prefactor"}

\* C15 (as the specification states it): on every constructed instance
\* each evaluation method and each property returns a value and never
\* raises.
C15_EvaluationNeverRaises ==
    (pc = "built" /\ call \in EvaluationCalls) => ret.ok

\* Two finished calls of one method on one instance have one outcome.
RepeatedCallsAgree ==
    \A t, u \in Threads :
        ( /\ thr[t].pc = "done"
          /\ thr[u].pc = "done"
          /\ thr[t].name = thr[u].name
          /\ thr[t].obj = thr[u].obj )
        => thr[t].ret = thr[u].ret

\* C16: after construction no step changes a field of an instance: the
\* evaluation calls leave the fields alone, an assignment to a field is
\* rejected, and a repeated call returns the value it returned before.
C16_FieldsNeverChange ==
    [][ pc = "built" =>
          /\ bei' = bei
          /\ bei2' = bei2
          /\ (call' = "setattr" /\ ret' # ret) => ~ret'.ok
          /\ RepeatedCallsAgree' ]_vars

C16_AssignThenRepeatWitness ==
    /\ call = "setattr"
    /\ ret = Raised("FrozenInstanceError")
    /\ thr["t1"].pc = "done"
    /\ thr["t2"].pc = "done"
    /\ thr["t1"].name = "upper"
    /\ thr["t2"].name = "upper"
    /\ thr["t1"].obj = 1
    /\ thr["t2"].obj = 1
    /\ ~thr["t1"].conc
    /\ thr["t1"].ret.ok
    /\ thr["t1"].ret.val # VZero

\* C17: however the steps of concurrent evaluation calls interleave, on
\* one instance or on two, each call has the outcome the same call has
\* when it runs alone on its instance.
C17_ConcurrentCallsAsSequential ==
    \A t \in Threads :
        thr[t].pc = "done"
        => thr[t].ret = MethodOutcome(thr[t].name, Obj(thr[t].obj))

C17_OverlapWitness ==
    /\ thr["t1"].pc = "done"
    /\ thr["t2"].pc = "done"
    /\ thr["t1"].conc
    /\ thr["t2"].conc
    /\ thr["t1"].obj = 1
    /\ thr["t2"].obj = 2
    /\ bei # bei2
    /\ thr["t1"].name = "upper"
    /\ thr["t2"].name = "lower"
    /\ thr["t1"].ret.ok
    /\ thr["t1"].ret.val # VZero

\* The BEI of order 2 with the cell's bandgap as energy bound, at the
\* solar temperature with chemical potential 0, and at the planetary
\* temperature with chemical potential e * voltage.
SolarBEI ==
    BEIInit([order |-> IntArg(2),
             energy_bound |-> NumArg(cell.bandgap),
             temperature |-> NumArg(cell.solar_temperature),
             chemical_potential |-> NumArg(FZeroF)])

PlanetBEI ==
    BEIInit([order |-> IntArg(2),
             energy_bound |-> NumArg(cell.bandgap),
             temperature |-> NumArg(cell.planetary_temperature),
             chemical_potential |-> NumArg(cell.voltage)])

EnergyQty(x) == Qty(UnitEnergy, VRat(x.q))

\* C18: SQSolarcell.power_density() is bandgap times upper() of the BEI
\* with order 2, energy bound bandgap, the solar temperature and chemical
\* potential 0, in W/m2, and is zero when bandgap is 0.
C18_SQPowerDensity ==
    (call = "power_density" /\ cell.kind = "SQ")
    => /\ SolarBEI.ok
       /\ ret.ok
       /\ ret.unit = Unit(1, -2, -1, 0)
       /\ ret = QTimes(upper(SolarBEI.bei), EnergyQty(cell.bandgap))
       /\ FEq(cell.bandgap, FZeroF) => ret.val = VZero

C18_SeriesWitness ==
    /\ Returned("power_density")
    /\ cell.kind = "SQ"
    /\ cell.bandgap = Fin(RInt(MaxEnergy))
    /\ ret.val # VZero

\* sigma_sb * T^4 at the solar temperature, in W/m2.
SolarRadiantPowerFlux ==
    Qty(Unit(1, -2, -1, 0),
        VMono(RMul(<<2, 15>>, RPow(cell.solar_temperature.q, 4)),
              5, 4, 1, FOne))

\* C19: for both cell classes efficiency() is the cell's own
\* power_density() divided by radiant_power_flux() at the solar
\* temperature (efficiency times that flux is the power density), and it
\* is dimensionless.
C19_EfficiencyIsRatio ==
    call = "efficiency" =>
        LET own == IF cell.kind = "DeVos"
                   THEN DeVos_power_density(cell, bei)
                   ELSE SQ_power_density(cell, bei)
        IN  IF own.ok
            THEN /\ ret.ok
                 /\ ret.unit = Dimensionless
                 /\ QTimes(ret, SolarRadiantPowerFlux) = own
            ELSE ret = own

C19_DeVosWitness ==
    /\ Returned("efficiency")
    /\ cell.kind = "DeVos"
    /\ ret.val # VZero
    /\ SQ_power_density(cell, bei) # DeVos_power_density(cell, bei)

\* C20: for bandgap > 0, DeVosSolarcell.power_density() is e * voltage
\* times the difference of upper() of the order-2 BEI at the solar
\* temperature with chemical potential 0 and upper() of the order-2 BEI at
\* the planetary temperature with chemical potential e * voltage, both
\* with the bandgap as energy bound.
C20_DeVosPowerDensity ==
    ( /\ call = "power_density"
      /\ cell.kind = "DeVos"
      /\ FGt(cell.bandgap, FZeroF) )
    => IF PlanetBEI.ok
       THEN /\ ret.unit = Unit(1, -2, -1, 0)
            /\ ret = QTimes(QSub(upper(SolarBEI.bei), upper(PlanetBEI.bei)),
                            EnergyQty(cell.voltage))
       ELSE ret = Raised(PlanetBEI.err)

C20_BothFluxesWitness ==
    /\ Returned("power_density")
    /\ cell.kind = "DeVos"
    /\ FGt(cell.bandgap, cell.voltage)
    /\ FGt(cell.voltage, FZeroF)
    /\ cell.planetary_temperature # cell.solar_temperature
    /\ upper(PlanetBEI.bei).val # VZero
    /\ ret.val # VZero

\* C21 (as the specification states it): on every constructed
\* DeVosSolarcell, a negative voltage and a voltage above the bandgap
\* included, power_density() returns a value in W/m2 and does not raise.
C21_DeVosPowerDensityReturns ==
    (call = "power_density" /\ cell.kind = "DeVos")
    => ret.ok /\ ret.unit = Unit(1, -2, -1, 0)

\* C22: with bandgap 0 a DeVosSolarcell has power_density() exactly 0 W/m2
\* and efficiency() exactly 0, for every voltage and both temperatures.
C22_ZeroBandgapDeVos ==
    ( /\ cell.kind = "DeVos"
      /\ FEq(cell.bandgap, FZeroF)
      /\ call \in {"power_density", "efficiency"} )
    => /\ ret.ok
       /\ ret.val = VZero
       /\ call = "power_density" => ret.unit = Unit(1, -2, -1, 0)
       /\ call = "efficiency" => ret.unit = Dimensionless

C22_NegativeVoltageWitness ==
    /\ Returned("efficiency")
    /\ cell.kind = "DeVos"
    /\ FEq(cell.bandgap, FZeroF)
    /\ FLt(cell.voltage, FZeroF)
    /\ cell.planetary_temperature # cell.solar_temperature

\* C23 (as the specification states it): the legacy uibei returns a
\* strictly positive value when energy_lo = 0 and chem_potential = 0 with
\* temp > 0.
C23_LegacyZeroBoundPositive ==
    ( /\ call \in {"uibei", "main.uibei"}
      /\ FEq(args.energy_bound, FZeroF)
      /\ FEq(args.chemical_potential, FZeroF)
      /\ FGt(args.temperature, FZeroF) )
    => ret.ok /\ VPositive(ret.val)

\* The number a __set__ argument stands for, in the descriptor's unit
\* (NaN when it stands for none), and whether it carries a unit that is
\* not convertible to the descriptor's.  A bare number, a dimensionless
\* Constant included, stands for that number of the descriptor's unit.
IsQuantityVal(val) == val.kind \in {"Quantity", "Constant"}
Incompatible(val) == IsQuantityVal(val) /\ val.unit.dim # prop.unit.dim
NonNumeric(val) ==
    \/ val.kind = "None"
    \/ val.kind = "str" /\ ~StrParsesAsInt(val.s)
ValueInUnit(val) ==
    CASE NonNumeric(val) -> NaN
      [] val.kind = "str" -> Fin(RInt(StrToInt(val.s)))
      [] val.kind = "Constant" /\ val.unit.dim = "none" ->
            FScale(val.v, <<val.unit.scale, 1>>)
      [] Incompatible(val) -> NaN
      [] IsQuantityVal(val) ->
            FScale(val.v, <<val.unit.scale, prop.unit.scale>>)
      [] OTHER -> val.v
WithinBounds(x) ==
    /\ x.k = "Quantity"
    /\ x.unit = prop.unit
    /\ FGe(x.v, prop.lo_bnd)
    /\ FGe(prop.up_bnd, x.v)

\* C24 (as the specification states it): whatever __set__ calls were made,
\* __get__ returns None or a quantity in the descriptor's unit within
\* [lo_bnd, up_bnd]; a set below lo_bnd or above up_bnd raises ValueError,
\* a set with incompatible units raises a units error and a non-numeric
\* set raises TypeError.
C24_StoredWithinBounds ==
    /\ call = "__get__" => (ret = None \/ WithinBounds(ret))
    /\ call = "__set__" =>
        /\ ( \/ FLt(ValueInUnit(args.val), prop.lo_bnd)
             \/ FGt(ValueInUnit(args.val), prop.up_bnd) )
           => exc = "ValueError"
        /\ Incompatible(args.val) => exc = "UnitConversionError"
        /\ NonNumeric(args.val) => exc = "TypeError"

\* What an owner is expected to read: None before any __set__ on it has
\* returned, and after that the argument of the last __set__ that returned,
\* as a quantity in the descriptor's unit.
LastSet(o) ==
    IF hist[o].kind = "unset" THEN None
    ELSE Quantity(ValueInUnit(hist[o]), prop.unit)
LastSetOfReader == LastSet(args.owner)

\* C25: a __set__ on one owner never changes what another owner reads,
\* and every __get__ returns the last value successfully set on the same
\* owner.
C25_OwnersAreIndependent ==
    [][ /\ call' = "__set__" =>
             \A o \in Owners \ {args'.owner} :
                 PhysicalProperty_get(prop', o) = PhysicalProperty_get(prop, o)
        /\ call' = "__get__" => ret' = LastSetOfReader' ]_vars

C25_TwoOwnersWitness ==
    /\ call = "__get__"
    /\ ret # None
    /\ \A o \in Owners : hist[o].kind # "unset"
    /\ LastSet("mock1") # LastSet("mock2")
    /\ hist[args.owner].kind = "Quantity"
    /\ hist[args.owner].unit # prop.unit

\* C30: a __set__ that raises leaves every stored value as it was, and the
\* __get__ that follows it returns the last successfully set value, or
\* None if there was none.
C30_FailedSetKeepsValue ==
    [][ /\ (call' = "__set__" /\ exc' # "none") =>
             \A o \in Owners :
                 PhysicalProperty_get(prop', o) = PhysicalProperty_get(prop, o)
        /\ (call = "__set__" /\ exc # "none" /\ call' = "__get__") =>
             ret' = LastSet(args'.owner) ]_vars

C30_FailedAfterStoredWitness ==
    /\ call = "__set__"
    /\ exc = "ValueError"
    /\ hist[args.owner].kind # "unset"
    /\ PhysicalProperty_get(prop, args.owner) # None

\* The sum the claim describes, by exponent e = order, order - 1, .. down
\* to 0: reduced_energy_bound^e * Li_(order+1-e)(x) / e!.
RECURSIVE SumByExponent(_, _)
SumByExponent(b, e) ==
    IF e < 0 THEN Qty(Dimensionless, VZero)
    ELSE QAdd(Qty(Dimensionless,
                  VScale(Polylog(b.order + 1 - e, UpperRealArg(b)).val,
                         RDiv(RPow(reduced_energy_bound(b).q, e),
                              RInt(FactNat(e))))),
              SumByExponent(b, e - 1))

\* C26: in the series branch upper() runs exactly order + 1 loop
\* iterations with one polylogarithm evaluation each, and its value is
\* prefactor * order! times the sum over the exponents order .. 0 of
\* reduced_energy_bound^e * Li_(order+1-e)(x) / e!; the singular branch
\* evaluates one polylogarithm and the two zero branches none.
C26_SeriesIterations ==
    call = "upper" =>
        /\ UpperBranch(bei) = "series" =>
            /\ UpperEvaluations(bei).iterations = bei.order + 1
            /\ UpperEvaluations(bei).polylogs = bei.order + 1
            /\ ret = TimesPrefactorFactorial(SumByExponent(bei, bei.order), bei)
        /\ UpperBranch(bei) = "singular" =>
            /\ UpperEvaluations(bei).iterations = 0
            /\ UpperEvaluations(bei).polylogs = 1
        /\ UpperBranch(bei) \in {"mu_ge_E", "underflow"} =>
            /\ UpperEvaluations(bei).polylogs = 0
            /\ ret = ZeroResult

C26_AllExponentsWitness ==
    /\ Returned("upper")
    /\ UpperBranch(bei) = "series"
    /\ bei.order = MaxOrder
    /\ FGt(reduced_energy_bound(bei), FZeroF)
    /\ Cardinality(ret.val) = bei.order + 1

\* The error of the first step of a sequence of steps that fails ("none"
\* when every step succeeds); a step is [ok, err].
RECURSIVE FirstError(_)
FirstError(steps) ==
    IF steps = <<>> THEN "none"
    ELSE IF ~Head(steps).ok THEN Head(steps).err
    ELSE FirstError(Tail(steps))

Step(ok, err) == [ok |-> ok, err |-> err]
ConversionSteps ==
    LET o == IntConverter(args.order)
        e == EnergyConverter(args.energy_bound)
        t == TemperatureConverter(args.temperature)
        m == EnergyConverter(args.chemical_potential)
    IN  <<Step(o.ok, o.err), Step(e.ok, e.err), Step(t.ok, t.err),
          Step(m.ok, m.err)>>
FieldValidatorSteps(v, inRange) ==
    <<Step(~IsArray(v), "TypeError"),
      Step(IsArray(v) \/ inRange, "ValueError")>>
ValidatorSteps ==
    LET e == EnergyConverter(args.energy_bound).v
        t == TemperatureConverter(args.temperature).v
        m == EnergyConverter(args.chemical_potential).v
    IN  FieldValidatorSteps(e, FGe(e, FZeroF))
        \o FieldValidatorSteps(t, FGt(t, FZeroF))
        \o FieldValidatorSteps(m, FGe(m, FZeroF))

\* An argument that is a scalar out of its field's range.
IsScalarArg(a) == a.kind \in {"num", "qty"}
OutOfRangeEnergyArg(a) ==
    IsScalarArg(a) /\ a.unit \in {"none", "eV"} /\ FLt(a.v, FZeroF)
OutOfRangeTemperatureArg(a) ==
    IsScalarArg(a) /\ a.unit \in {"none", "K"} /\ ~FGt(a.v, FZeroF)
SomeRangeError ==
    \/ OutOfRangeEnergyArg(args.energy_bound)
    \/ OutOfRangeTemperatureArg(args.temperature)
    \/ OutOfRangeEnergyArg(args.chemical_potential)
SomeUnitOrOrderError ==
    \/ ~IntConverter(args.order).ok
    \/ IncompatibleArg(args.energy_bound)
    \/ IncompatibleArg(args.temperature)
    \/ IncompatibleArg(args.chemical_potential)

\* C27: the error a construction reports is that of the first failing
\* step in the order: conversion of order, energy_bound, temperature,
\* chemical_potential, and, only when all four convert, the validators
\* field by field (scalar before range).  So when an incompatible unit or
\* an order TypeError comes with a range error, the error reported is not
\* the range error (ValueError), and a failed construction returns no
\* instance.
C27_ErrorPrecedence ==
    pc # "new" =>
        /\ FirstError(ConversionSteps) # "none"
            => pc = "failed" /\ exc = FirstError(ConversionSteps)
        /\ FirstError(ConversionSteps) = "none"
            => exc = FirstError(ValidatorSteps)
        /\ (SomeUnitOrOrderError /\ SomeRangeError)
            => pc = "failed" /\ exc # "ValueError"
        /\ pc = "failed" <=> exc # "none"
        /\ pc = "failed" => bei = NoBEI

C27_UnitBeatsRangeWitness ==
    /\ pc = "failed"
    /\ exc = "UnitConversionError"
    /\ IntConverter(args.order).ok
    /\ OutOfRangeEnergyArg(args.energy_bound)
    /\ OutOfRangeTemperatureArg(args.temperature)
    /\ IncompatibleArg(args.chemical_potential)

\* Every instance the constructor returns for the arguments of Spec.
ConstructedInstances ==
    {BEIInit(a).bei : a \in {x \in ArgSets : BEIInit(x).ok}}
SameButEnergyBound(b, c) ==
    /\ b.order = c.order
    /\ b.temperature = c.temperature
    /\ b.chemical_potential = c.chemical_potential

\* C28: photon_flux() and radiant_power_flux() are the same on any two
\* instances with the same temperature, whatever their order, energy
\* bound and chemical potential; full() is the same on two instances that
\* differ only in energy bound.
C28_DependsOnlyOn ==
    /\ call \in {"photon_flux", "radiant_power_flux"} =>
          \A b \in ConstructedInstances :
              b.temperature = bei.temperature => MethodOutcome(call, b) = ret
    /\ call = "full" =>
          \A b \in ConstructedInstances :
              SameButEnergyBound(b, bei) => full(b) = ret

C28_DifferentInstancesWitness ==
    /\ Returned("photon_flux")
    /\ \E b \in ConstructedInstances :
          /\ b.temperature = bei.temperature
          /\ b.order # bei.order
          /\ b.energy_bound # bei.energy_bound
          /\ b.chemical_potential # bei.chemical_potential
          /\ full(b).ok
          /\ full(b).val # VZero
          /\ \E c \in ConstructedInstances :
                SameButEnergyBound(b, c) /\ c # b /\ upper(c) # upper(b)

\* C29: when 0 < chemical potential < energy bound and the exponential has
\* not underflowed, full() is zero and upper() is the series value, so
\* lower() is the negation of upper(); lower() is zero whenever
\* chemical potential >= energy bound > 0.
C29_LowerBelowSingularity ==
    call = "lower" =>
        /\ ( /\ FGt(bei.chemical_potential, FZeroF)
             /\ FLt(bei.chemical_potential, bei.energy_bound)
             /\ UpperRealArg(bei).k # "zero" )
           => /\ full(bei) = ZeroResult
              /\ UpperBranch(bei) = "series"
              /\ upper(bei) =
                    TimesPrefactorFactorial(
                        SeriesLoop(bei, 1, Qty(Dimensionless, VZero)), bei)
              /\ ret.ok
              /\ ret.unit = upper(bei).unit
              /\ ret.val = VNeg(upper(bei).val)
        /\ ( /\ FGe(bei.chemical_potential, bei.energy_bound)
             /\ FGt(bei.energy_bound, FZeroF) )
           => ret = ZeroResult

C29_NegativeLowerWitness ==
    /\ Returned("lower")
    /\ FGt(bei.chemical_potential, FZeroF)
    /\ FLt(bei.chemical_potential, bei.energy_bound)
    /\ VPositive(upper(bei).val)
    /\ VPositive(VNeg(ret.val))

====
